---- MODULE Spec2Model ----
(***************************************************************************)
(* CrashGuard-S driver backend (src/driver_app/server.py): the dispatch    *)
(* engine over the SQLite tables crashes / ambulances / drivers, the SSE   *)
(* subscriber registry, and the Flask request handlers that run on         *)
(* parallel threads (app.run(threaded=True)).                              *)
(*                                                                         *)
(* Every conn.commit() is one atomic step: SQLite serialises writers and   *)
(* a reader on another connection sees committed rows only.  dispatch()    *)
(* reads the candidate units, commits its decision and publishes in three  *)
(* steps that other threads interleave with; the handlers that commit once *)
(* and then publish are one step each.                                     *)
(*                                                                         *)
(* Spec explores the engine with no client connected to /events: the       *)
(* queues of _subscribers never feed back into the tables or into          *)
(* dispatch(), so the table states it reaches are those of the program.    *)
(* SpecFanout explores the same handlers with clients on /events.          *)
(* SpecTxn opens up the handlers that execute two UPDATEs before their     *)
(* commit, statement by statement, and SpecStatus does so with the         *)
(* drivers' event streams open.  SpecLock opens up push_event's use of     *)
(* _sub_lock.                                                              *)
(***************************************************************************)
EXTENDS Integers, Sequences, FiniteSets, Bags, TLC

\* ---- bounds of the model -------------------------------------------------
NumUnits   == 2        \* seeded ambulances (and their drivers) considered
MaxCrashes == 2        \* rows ever inserted into crashes
MaxInFlight == 2       \* dispatch() calls in flight at once
MaxCalls   == 4        \* requests served in one behaviour
MaxSubs    == 2        \* /events connections opened in one behaviour

\* ---- program constants ---------------------------------------------------
NULL         == 0      \* SQL NULL / Python None
QueueMaxSize == 30     \* queue.Queue(maxsize=30)

Units   == 1 .. NumUnits
Drivers == 1 .. NumUnits
CrashIds == 1 .. MaxCrashes

\* drivers seed: driver i is bound to Unit-0i
UnitOf(d) == d

\* ambulances seed: the units sit on one meridian, two grid steps apart
UnitLat(u) == 2 * u

\* simulate_crash draws the crash location at random around the base point
CrashLats == {3, 4}

\* Great-circle distance.  All points of the model share one longitude, where
\* haversine reduces to R * |lat1 - lat2|; the model measures it in grid steps.
haversine(lat1, lat2) == IF lat1 >= lat2 THEN lat1 - lat2 ELSE lat2 - lat1

\* no connection has a transaction open
Idle == [pc |-> "idle"]

VARIABLES
    crashes,       \* table crashes: row id = index; [status, assigned, lat]
    is_available,  \* table ambulances: is_available per unit
    is_on_duty,    \* table drivers: is_on_duty per driver
    subscribers,   \* _subscribers: unit -> list of queues (each a list of msgs)
    inflight,      \* bag of the dispatch() frames of the request threads
    calls,         \* requests received so far
    streams,       \* per queue of _subscribers: its generate() and its client
    published,     \* per queue of _subscribers: what was published to it (history)
    txn            \* the connection that holds SQLite's write lock, if any

vars == <<crashes, is_available, is_on_duty, subscribers, inflight, calls,
          streams, published, txn>>

\* The frame of one dispatch() call: where it stands, its arguments
\* (crash_id, exclude_unit) and its locals (units, nearest); op is the handler
\* that called it.
Frame(pc, op, crash_id, exclude, units, nearest) ==
    [pc |-> pc, op |-> op, crash_id |-> crash_id, exclude |-> exclude,
     units |-> units, nearest |-> nearest]

Frames == BagToSet(inflight)

\* a request thread enters dispatch() / moves on in it / returns from it
Enter(f)      == inflight (+) SetToBag({f})
Move(f, g)    == (inflight (-) SetToBag({f})) (+) SetToBag({g})
Return(f)     == inflight (-) SetToBag({f})

\* ---- SSE fan-out ----------------------------------------------------------
\* a put that jumps the queue
PutFront(q, msg) == IF Len(q) < QueueMaxSize THEN <<msg>> \o q ELSE q

\* a put that makes room by dropping the oldest message
PutEvict(q, msg) == IF Len(q) < QueueMaxSize THEN Append(q, msg) ELSE Append(Tail(q), msg)

\* q.put_nowait(msg); queue.Full is swallowed
PutNowait(q, msg) == IF Len(q) < QueueMaxSize THEN Append(q, msg) ELSE q

\* push_event that stops after the first queue of the unit
push_event_first(subs, unit_id, msg) ==
    [subs EXCEPT ![unit_id] = [i \in 1 .. Len(subs[unit_id]) |->
                                 IF i = 1 THEN PutNowait(subs[unit_id][i], msg)
                                 ELSE subs[unit_id][i]]]

push_event(subs, unit_id, msg) ==
    [subs EXCEPT ![unit_id] = [i \in 1 .. Len(subs[unit_id]) |->
                                 PutNowait(subs[unit_id][i], msg)]]

\* push_all that walks the queues of Unit-01 only
push_all_one_unit(subs, msg) == push_event(subs, 1, msg)

push_all(subs, msg) ==
    [u \in Units |-> [i \in 1 .. Len(subs[u]) |-> PutNowait(subs[u][i], msg)]]

\* history of the publishes: every message handed to put_nowait for a queue,
\* and whether one of them found the queue full
Logged(h, q, msg) ==
    [log |-> Append(h.log, msg), full |-> h.full \/ Len(q) >= QueueMaxSize]

log_event(pub, subs, unit_id, msg) ==
    [pub EXCEPT ![unit_id] = [i \in 1 .. Len(subs[unit_id]) |->
                                Logged(pub[unit_id][i], subs[unit_id][i], msg)]]

log_all(pub, subs, msg) ==
    [u \in Units |-> [i \in 1 .. Len(subs[u]) |-> Logged(pub[u][i], subs[u][i], msg)]]

\* ---- tables ---------------------------------------------------------------
\* UPDATE crashes SET ... WHERE id=?  (no row: nothing happens)
UpdateCrash(cs, id, row) ==
    IF id \in 1 .. Len(cs) THEN [cs EXCEPT ![id] = row] ELSE cs

\* SELECT a.* FROM ambulances a JOIN drivers d ON d.unit_id = a.id
\* WHERE a.is_available=1 AND d.is_on_duty=1
AvailableStaffed ==
    {u \in Units : is_available[u] /\ \E d \in Drivers : UnitOf(d) = u /\ is_on_duty[d]}

\* dispatch that forgets the exclusion
CandidatesUnfiltered(units, exclude_unit) == units

\* if exclude_unit: units = [u for u in units if u["id"] != exclude_unit]
Candidates(units, exclude_unit) ==
    IF exclude_unit # NULL THEN {u \in units : u # exclude_unit} ELSE units

\* dispatch that takes the farthest candidate (max for min)
Farthest(units, lat) ==
    {u \in units : \A v \in units :
        haversine(lat, UnitLat(u)) >= haversine(lat, UnitLat(v))}

\* min(units, key=haversine): a unit of least distance; among equidistant
\* units the first of the unordered SELECT wins, so any of them may
Nearest(units, lat) ==
    {u \in units : \A v \in units :
        haversine(lat, UnitLat(u)) <= haversine(lat, UnitLat(v))}

Init ==
    /\ crashes = <<>>
    /\ is_available = [u \in Units |-> TRUE]
    /\ is_on_duty = [d \in Drivers |-> FALSE]
    /\ subscribers = [u \in Units |-> <<>>]
    /\ inflight = EmptyBag
    /\ calls = 0
    /\ streams = [u \in Units |-> <<>>]
    /\ published = [u \in Units |-> <<>>]
    /\ txn = Idle

\* a request arrives: Flask (threaded=True) starts a thread for it
Request == calls < MaxCalls /\ calls' = calls + 1

\* ---- logout ---------------------------------------------------------------
\* login and the session live in the client's signed cookie; the server
\* keeps nothing of them, so any driver may call at any time
Logout(d) ==
    /\ Request
    /\ is_on_duty' = [is_on_duty EXCEPT ![d] = FALSE]
    /\ is_available' = [is_available EXCEPT ![UnitOf(d)] = FALSE]
    /\ UNCHANGED <<crashes, subscribers, inflight>>
    /\ UNCHANGED <<streams, published, txn>>

\* ---- availability toggle --------------------------------------------------
SetAvailability(d, on_duty) ==
    /\ Request
    /\ is_on_duty' = [is_on_duty EXCEPT ![d] = on_duty]
    /\ is_available' = [is_available EXCEPT ![UnitOf(d)] = on_duty]
    /\ subscribers' = push_all(subscribers,
                         <<"availability_update", UnitOf(d), IF on_duty THEN 1 ELSE 0>>)
    /\ UNCHANGED <<crashes, inflight>>
    /\ published' = log_all(published, subscribers,
                         <<"availability_update", UnitOf(d), IF on_duty THEN 1 ELSE 0>>)
    /\ UNCHANGED <<streams, txn>>

\* ---- dispatch -------------------------------------------------------------
\* lines 70-78: read the candidate units
DispatchRead(f) ==
    /\ f.pc = "dispatch_read"
    /\ inflight' = Move(f, [f EXCEPT !.pc = "dispatch_write",
                               !.units = Candidates(AvailableStaffed, f.exclude)])
    /\ UNCHANGED <<crashes, is_available, is_on_duty, subscribers, calls>>
    /\ UNCHANGED <<streams, published, txn>>

\* lines 80-84: no candidate
DispatchNone(f) ==
    /\ f.pc = "dispatch_write"
    /\ f.units = {}
    /\ crashes' = UpdateCrash(crashes, f.crash_id,
                     [crashes[f.crash_id] EXCEPT !.status = "no_unit_available"])
    /\ inflight' = Return(f)
    /\ UNCHANGED <<is_available, is_on_duty, subscribers, calls>>
    /\ UNCHANGED <<streams, published, txn>>

\* lines 86-94: pick the nearest candidate and commit the assignment
DispatchAssign(f) ==
    /\ f.pc = "dispatch_write"
    /\ f.units # {}
    /\ \E n \in Nearest(f.units, crashes[f.crash_id].lat) :
         /\ crashes' = UpdateCrash(crashes, f.crash_id,
                          [crashes[f.crash_id] EXCEPT !.assigned = n,
                                                      !.status = "waiting_for_driver"])
         /\ inflight' = Move(f, [f EXCEPT !.pc = "dispatch_push", !.nearest = n,
                                         !.units = {}])
    /\ UNCHANGED <<is_available, is_on_duty, subscribers, calls>>
    /\ UNCHANGED <<streams, published, txn>>

\* a dispatch that publishes its event twice
DispatchPushTwice(f) ==
    /\ f.pc = "dispatch_push"
    /\ LET msg  == <<"mission_assigned", f.crash_id, f.nearest>>
           once == push_event(subscribers, f.nearest, msg)
       IN  /\ subscribers' = push_event(once, f.nearest, msg)
           /\ published' = log_event(log_event(published, subscribers, f.nearest, msg),
                                     once, f.nearest, msg)
    /\ inflight' = Return(f)
    /\ UNCHANGED <<crashes, is_available, is_on_duty, calls>>
    /\ UNCHANGED <<streams, txn>>

\* lines 96-106: publish mission_assigned and return nearest["id"]
DispatchPush(f) ==
    /\ f.pc = "dispatch_push"
    /\ subscribers' = push_event(subscribers, f.nearest,
                         <<"mission_assigned", f.crash_id, f.nearest>>)
    /\ inflight' = Return(f)
    /\ UNCHANGED <<crashes, is_available, is_on_duty, calls>>
    /\ published' = log_event(published, subscribers, f.nearest,
                         <<"mission_assigned", f.crash_id, f.nearest>>)
    /\ UNCHANGED <<streams, txn>>

\* ---- simulate_crash -------------------------------------------------------
\* INSERT ... status 'new'; capture_snapshot only writes snapshot_path
SimulateCrash(lat) ==
    /\ Request
    /\ BagCardinality(inflight) < MaxInFlight
    /\ Len(crashes) < MaxCrashes
    /\ crashes' = Append(crashes, [status |-> "new", assigned |-> NULL, lat |-> lat])
    /\ inflight' = Enter(Frame("dispatch_read", "simulate_crash",
                               Len(crashes) + 1, NULL, {}, NULL))
    /\ UNCHANGED <<is_available, is_on_duty, subscribers>>
    /\ UNCHANGED <<streams, published, txn>>

\* ---- accept / arrived ----------------------------------------------------
\* accept_mission that forgets UPDATE ambulances SET is_available=0
AcceptMissionCrashOnly(d, id) ==
    /\ Request
    /\ crashes' = UpdateCrash(crashes, id, [crashes[id] EXCEPT !.status = "en_route"])
    /\ subscribers' = push_all(subscribers, <<"status_update", id, "en_route">>)
    /\ UNCHANGED <<is_available, is_on_duty, inflight>>
    /\ published' = log_all(published, subscribers, <<"status_update", id, "en_route">>)
    /\ UNCHANGED <<streams, txn>>

AcceptMission(d, id) ==
    /\ Request
    /\ crashes' = UpdateCrash(crashes, id, [crashes[id] EXCEPT !.status = "en_route"])
    /\ is_available' = [is_available EXCEPT ![UnitOf(d)] = FALSE]
    /\ subscribers' = push_all(subscribers, <<"status_update", id, "en_route">>)
    /\ UNCHANGED <<is_on_duty, inflight>>
    /\ published' = log_all(published, subscribers, <<"status_update", id, "en_route">>)
    /\ UNCHANGED <<streams, txn>>

Arrived(d, id) ==
    /\ Request
    /\ crashes' = UpdateCrash(crashes, id, [crashes[id] EXCEPT !.status = "resolved"])
    /\ is_available' = [is_available EXCEPT ![UnitOf(d)] = TRUE]
    /\ subscribers' = push_all(subscribers, <<"status_update", id, "resolved">>)
    /\ UNCHANGED <<is_on_duty, inflight>>
    /\ published' = log_all(published, subscribers, <<"status_update", id, "resolved">>)
    /\ UNCHANGED <<streams, txn>>

\* ---- mission -------------------------------------------------------------
\* WHERE c.assigned_ambulance_id=? AND c.status IN ('waiting_for_driver','en_route')
MissionRow(id, unit_id) ==
    /\ crashes[id].assigned = unit_id
    /\ crashes[id].status \in {"waiting_for_driver", "en_route"}

\* the same query with ORDER BY c.id ASC
RECURSIVE FirstAsc(_, _)
FirstAsc(i, unit_id) ==
    IF i = 0 THEN NULL
    ELSE LET id == Len(crashes) + 1 - i
         IN  IF MissionRow(id, unit_id) THEN id ELSE FirstAsc(i - 1, unit_id)

\* ORDER BY c.id DESC LIMIT 1 ... fetchone(): scan the rows from id = i down
\* and stop at the first match; None if there is none
RECURSIVE FirstDesc(_, _)
FirstDesc(i, unit_id) ==
    IF i = 0 THEN NULL
    ELSE IF MissionRow(i, unit_id) THEN i ELSE FirstDesc(i - 1, unit_id)

\* the JSON answer of GET /api/mission for driver d
get_mission(d) ==
    LET row == FirstDesc(Len(crashes), UnitOf(d))
    IN  IF row = NULL
        THEN [status |-> "standby", crash_id |-> NULL]
        ELSE [status |-> crashes[row].status, crash_id |-> row]

GetMission(d) ==
    /\ Request
    /\ get_mission(d).status \in {"standby", "waiting_for_driver", "en_route"}
    /\ UNCHANGED <<crashes, is_available, is_on_duty, subscribers, inflight>>
    /\ UNCHANGED <<streams, published, txn>>

\* ---- decline --------------------------------------------------------------
\* lines 337-345: clear the assignment and commit; then, if the row exists,
\* dispatch(crash_id, ..., exclude_unit=driver["unit_id"])
DeclineMission(d, id) ==
    /\ Request
    /\ BagCardinality(inflight) < MaxInFlight
    /\ crashes' = UpdateCrash(crashes, id,
                     [crashes[id] EXCEPT !.status = "new", !.assigned = NULL])
    /\ inflight' = IF id \in 1 .. Len(crashes)
                   THEN Enter(Frame("dispatch_read", "decline_mission",
                                    id, UnitOf(d), {}, NULL))
                   ELSE inflight
    /\ UNCHANGED <<is_available, is_on_duty, subscribers>>
    /\ UNCHANGED <<streams, published, txn>>

Next ==
    \/ \E d \in Drivers : Logout(d)
    \/ \E d \in Drivers, b \in BOOLEAN : SetAvailability(d, b)
    \/ \E lat \in CrashLats : SimulateCrash(lat)
    \/ \E f \in Frames : DispatchRead(f)
    \/ \E f \in Frames : DispatchNone(f)
    \/ \E f \in Frames : DispatchAssign(f)
    \/ \E f \in Frames : DispatchPush(f)
    \/ \E d \in Drivers, id \in CrashIds : AcceptMission(d, id)
    \/ \E d \in Drivers, id \in CrashIds : Arrived(d, id)
    \/ \E d \in Drivers, id \in CrashIds : DeclineMission(d, id)
    \/ \E d \in Drivers : GetMission(d)

Spec == Init /\ [][Next]_vars

\* ---- /events ---------------------------------------------------------------
\* the queues registered so far, as (unit, position in the unit's list)
Registered == {s \in Units \X (1 .. MaxSubs + 1) : s[2] <= Len(subscribers[s[1]])}

\* lines 258-265: q = queue.Queue(maxsize=30); _subscribers[unit_id].append(q);
\* the Response holds generate(), which has not run yet
SseStream(d) ==
    /\ Request
    /\ Cardinality(Registered) < MaxSubs + 1
    /\ subscribers' = [subscribers EXCEPT ![UnitOf(d)] = Append(@, <<>>)]
    /\ streams' = [streams EXCEPT ![UnitOf(d)] =
                      Append(@, [driver |-> d, open |-> TRUE, out |-> <<>>])]
    /\ published' = [published EXCEPT ![UnitOf(d)] =
                        Append(@, [log |-> <<>>, full |-> FALSE])]
    /\ UNCHANGED <<crashes, is_available, is_on_duty, inflight, txn>>

\* line 268: the server starts iterating generate(): its first yield
StreamStart(u, i) ==
    /\ streams[u][i].open
    /\ streams[u][i].out = <<>>
    /\ streams' = [streams EXCEPT ![u][i].out = <<<<"connected", u, streams[u][i].driver>>>>]
    /\ UNCHANGED <<crashes, is_available, is_on_duty, subscribers, inflight, calls,
                   published, txn>>

\* a generate() that enters its loop without the first yield
StreamGetUnstarted(u, i) ==
    /\ streams[u][i].open
    /\ subscribers[u][i] # <<>>
    /\ streams' = [streams EXCEPT ![u][i].out = Append(@, Head(subscribers[u][i]))]
    /\ subscribers' = [subscribers EXCEPT ![u][i] = Tail(@)]
    /\ UNCHANGED <<crashes, is_available, is_on_duty, inflight, calls, published, txn>>

\* lines 269-272: msg = q.get(timeout=25); yield msg.  On queue.Empty the
\* loop yields the comment line ": heartbeat", which is no event and leaves
\* the queue and the events yielded as they are.
StreamGet(u, i) ==
    /\ streams[u][i].open
    /\ streams[u][i].out # <<>>
    /\ subscribers[u][i] # <<>>
    /\ streams' = [streams EXCEPT ![u][i].out = Append(@, Head(subscribers[u][i]))]
    /\ subscribers' = [subscribers EXCEPT ![u][i] = Tail(@)]
    /\ UNCHANGED <<crashes, is_available, is_on_duty, inflight, calls, published, txn>>

\* The client goes away and the server closes generate().  cleanup() (lines
\* 276-279) is defined but nothing registers or calls it: the queue stays in
\* _subscribers.
Disconnect(u, i) ==
    /\ streams[u][i].open
    /\ streams' = [streams EXCEPT ![u][i].open = FALSE]
    /\ UNCHANGED <<crashes, is_available, is_on_duty, subscribers, inflight, calls,
                   published, txn>>

\* Both drivers have gone on duty.  The driver of Unit-01 then opened /events
\* and went away, and has toggled their availability on QueueMaxSize - 1 times
\* since: the queue left behind is one message short of full.  The connection
\* left behind is counted among the requests of the behaviour.
Filler == [k \in 1 .. QueueMaxSize - 1 |-> <<"availability_update", 1, 1>>]

InitFanout ==
    /\ crashes = <<>>
    /\ is_available = [u \in Units |-> TRUE]
    /\ is_on_duty = [d \in Drivers |-> TRUE]
    /\ subscribers = [u \in Units |-> IF u = 1 THEN <<Filler>> ELSE <<>>]
    /\ streams = [u \in Units |->
                    IF u = 1 THEN <<[driver |-> 1, open |-> FALSE,
                                     out |-> <<<<"connected", 1, 1>>>>]>>
                    ELSE <<>>]
    /\ published = [u \in Units |->
                      IF u = 1 THEN <<[log |-> Filler, full |-> FALSE]>> ELSE <<>>]
    /\ inflight = EmptyBag
    /\ calls = 1
    /\ txn = Idle

\* set_availability is the handler that broadcasts and dispatch() the one that
\* publishes to a unit; accept_mission and arrived broadcast through the same
\* push_all and are explored in Spec.
NextFanout ==
    \/ \E d \in Drivers : SseStream(d)
    \/ \E s \in Registered : StreamStart(s[1], s[2])
    \/ \E s \in Registered : StreamGet(s[1], s[2])
    \/ \E s \in Registered : Disconnect(s[1], s[2])
    \/ \E d \in Drivers, b \in BOOLEAN : SetAvailability(d, b)
    \/ \E lat \in CrashLats : SimulateCrash(lat)
    \/ \E f \in Frames : DispatchRead(f)
    \/ \E f \in Frames : DispatchNone(f)
    \/ \E f \in Frames : DispatchAssign(f)
    \/ \E f \in Frames : DispatchPush(f)

SpecFanout == InitFanout /\ [][NextFanout]_vars

\* the server's threads are scheduled: while some step is possible, one is taken
SpecFanoutFair == SpecFanout /\ WF_vars(NextFanout)

\* ---- accept / arrived, statement by statement -------------------------------
\* sqlite3 opens a transaction before the first UPDATE of a connection.  Its
\* changes stay in that connection until conn.commit(); the tables the other
\* connections read are crashes and is_available.  While the transaction is
\* open SQLite lets no other connection write.
Pending(op, d, id, pc, cs, av) ==
    [op |-> op, d |-> d, id |-> id, pc |-> pc, crashes |-> cs, is_available |-> av]

\* a connection in autocommit mode: the first UPDATE is committed on its own
AcceptBeginAutocommit(d, id) ==
    /\ Request
    /\ txn = Idle
    /\ crashes' = UpdateCrash(crashes, id, [crashes[id] EXCEPT !.status = "en_route"])
    /\ txn' = Pending("accept_mission", d, id, "ambulances", crashes', is_available)
    /\ UNCHANGED <<is_available, is_on_duty, subscribers, inflight, streams, published>>

\* line 323: UPDATE crashes SET status='en_route' WHERE id=?
AcceptBegin(d, id) ==
    /\ Request
    /\ txn = Idle
    /\ txn' = Pending("accept_mission", d, id, "ambulances",
                      UpdateCrash(crashes, id, [crashes[id] EXCEPT !.status = "en_route"]),
                      is_available)
    /\ UNCHANGED <<crashes, is_available, is_on_duty, subscribers, inflight,
                   streams, published>>

\* line 355: UPDATE crashes SET status='resolved' WHERE id=?
ArrivedBegin(d, id) ==
    /\ Request
    /\ txn = Idle
    /\ txn' = Pending("arrived", d, id, "ambulances",
                      UpdateCrash(crashes, id, [crashes[id] EXCEPT !.status = "resolved"]),
                      is_available)
    /\ UNCHANGED <<crashes, is_available, is_on_duty, subscribers, inflight,
                   streams, published>>

\* a handler that announces the status before it commits
ExecAmbulancesAnnouncing ==
    /\ txn # Idle
    /\ txn.pc = "ambulances"
    /\ txn' = [txn EXCEPT !.pc = "commit",
                          !.is_available[UnitOf(txn.d)] = (txn.op = "arrived")]
    /\ LET msg == <<"status_update", txn.id,
                    IF txn.op = "arrived" THEN "resolved" ELSE "en_route">>
       IN  /\ subscribers' = push_all(subscribers, msg)
           /\ published' = log_all(published, subscribers, msg)
    /\ UNCHANGED <<crashes, is_available, is_on_duty, inflight, calls, streams>>

\* lines 324, 356: UPDATE ambulances SET is_available=0|1 WHERE id=?
ExecAmbulances ==
    /\ txn # Idle
    /\ txn.pc = "ambulances"
    /\ txn' = [txn EXCEPT !.pc = "commit",
                          !.is_available[UnitOf(txn.d)] = (txn.op = "arrived")]
    /\ UNCHANGED <<crashes, is_available, is_on_duty, subscribers, inflight, calls,
                   streams, published>>

\* the status a handler writes and then announces
StatusOf(op) == IF op = "arrived" THEN "resolved" ELSE "en_route"

\* lines 325-326, 357-358: conn.commit(); conn.close().  The thread goes on
\* to its push_all, with the write lock released.
Commit ==
    /\ txn # Idle
    /\ txn.pc = "commit"
    /\ crashes' = txn.crashes
    /\ is_available' = txn.is_available
    /\ txn' = Idle
    /\ inflight' = Enter(Frame("push_all", txn.op, txn.id, NULL, {}, UnitOf(txn.d)))
    /\ UNCHANGED <<is_on_duty, subscribers, calls, streams, published>>

\* lines 327, 359: push_all("status_update", {crash_id, status, unit})
StatusPush(f) ==
    /\ f.pc = "push_all"
    /\ LET msg == <<"status_update", f.crash_id, StatusOf(f.op)>>
       IN  /\ subscribers' = push_all(subscribers, msg)
           /\ published' = log_all(published, subscribers, msg)
    /\ inflight' = Return(f)
    /\ UNCHANGED <<crashes, is_available, is_on_duty, calls, streams, txn>>

\* Every driver has gone on duty; that is counted as one request of the
\* behaviour.
InitTxn ==
    /\ crashes = <<>>
    /\ is_available = [u \in Units |-> TRUE]
    /\ is_on_duty = [d \in Drivers |-> TRUE]
    /\ subscribers = [u \in Units |-> <<>>]
    /\ inflight = EmptyBag
    /\ calls = 1
    /\ streams = [u \in Units |-> <<>>]
    /\ published = [u \in Units |-> <<>>]
    /\ txn = Idle

\* the handlers that write wait for the open transaction (txn = Idle); the
\* ones that only read do not
NextTxn ==
    \/ \E lat \in CrashLats : txn = Idle /\ SimulateCrash(lat)
    \/ \E f \in Frames : DispatchRead(f)
    \/ \E f \in Frames : txn = Idle /\ DispatchNone(f)
    \/ \E f \in Frames : txn = Idle /\ DispatchAssign(f)
    \/ \E f \in Frames : DispatchPush(f)
    \/ \E d \in Drivers, id \in CrashIds : AcceptBegin(d, id)
    \/ \E d \in Drivers, id \in CrashIds : ArrivedBegin(d, id)
    \/ ExecAmbulances
    \/ Commit
    \/ \E f \in Frames : StatusPush(f)
    \/ \E d \in Drivers, id \in CrashIds : txn = Idle /\ DeclineMission(d, id)
    \/ \E d \in Drivers : GetMission(d)

SpecTxn == InitTxn /\ [][NextTxn]_vars

\* Every driver has gone on duty and has their event stream open.  A crash
\* was reported next to Unit-01 and dispatched to it, and the driver's stream
\* has yielded connected and the mission_assigned event.  Going on duty and
\* the report are counted as two requests of the behaviour.
Assigned1 == <<"mission_assigned", 1, 1>>

InitStatus ==
    /\ crashes = <<[status |-> "waiting_for_driver", assigned |-> 1, lat |-> UnitLat(1)]>>
    /\ is_available = [u \in Units |-> TRUE]
    /\ is_on_duty = [d \in Drivers |-> TRUE]
    /\ subscribers = [u \in Units |-> <<<<>>>>]
    /\ inflight = EmptyBag
    /\ calls = 2
    /\ streams = [u \in Units |->
                    <<[driver |-> u, open |-> TRUE,
                       out |-> IF u = 1 THEN <<<<"connected", u, u>>, Assigned1>>
                               ELSE <<<<"connected", u, u>>>>]>>]
    /\ published = [u \in Units |->
                      <<[log |-> IF u = 1 THEN <<Assigned1>> ELSE <<>>, full |-> FALSE]>>]
    /\ txn = Idle

\* the crash is accepted and arrived at while the drivers' streams are read
NextStatus ==
    \/ \E d \in Drivers, id \in CrashIds : AcceptBegin(d, id)
    \/ \E d \in Drivers, id \in CrashIds : ArrivedBegin(d, id)
    \/ ExecAmbulances
    \/ Commit
    \/ \E f \in Frames : StatusPush(f)
    \/ \E s \in Registered : StreamGet(s[1], s[2])

SpecStatus == InitStatus /\ [][NextStatus]_vars

\* ---- _sub_lock ---------------------------------------------------------------
\* push_event and sse_stream take the one module-level lock _sub_lock (line
\* 32) around their walk of, resp. their append to, a unit's list of queues.
\* A thread inside "with _sub_lock:" is a frame at push_locked.
LockHolders == {f \in Frames : f.pc = "push_locked"}

\* line 37: with _sub_lock: -- the thread gets the lock when no thread has it
PushAcquire(f) ==
    /\ f.pc = "dispatch_push"
    /\ LockHolders = {}
    /\ inflight' = Move(f, [f EXCEPT !.pc = "push_locked"])
    /\ UNCHANGED <<crashes, is_available, is_on_duty, subscribers, calls,
                   streams, published, txn>>

\* lines 38-40: walk the unit's queues, leave the with block, return
PushRelease(f) ==
    /\ f.pc = "push_locked"
    /\ subscribers' = push_event(subscribers, f.nearest,
                         <<"mission_assigned", f.crash_id, f.nearest>>)
    /\ published' = log_event(published, subscribers, f.nearest,
                         <<"mission_assigned", f.crash_id, f.nearest>>)
    /\ inflight' = Return(f)
    /\ UNCHANGED <<crashes, is_available, is_on_duty, calls, streams, txn>>

\* lines 264-265: with _sub_lock: _subscribers.setdefault(unit_id, []).append(q)
SseStreamLocked(d) ==
    /\ LockHolders = {}
    /\ SseStream(d)

NextLock ==
    \/ \E lat \in CrashLats : SimulateCrash(lat)
    \/ \E f \in Frames : DispatchRead(f)
    \/ \E f \in Frames : DispatchAssign(f)
    \/ \E f \in Frames : PushAcquire(f)
    \/ \E f \in Frames : PushRelease(f)
    \/ \E d \in Drivers : SseStreamLocked(d)

\* starts with every driver on duty, as SpecTxn does
SpecLock == InitTxn /\ [][NextLock]_vars

\* ---- properties of the dispatch engine ------------------------------------
Ids == 1 .. Len(crashes)

Active == {"waiting_for_driver", "en_route"}

\* frame f took a step (left its position) between this state and the next
Stepped(f) == CopiesIn(f, inflight') < CopiesIn(f, inflight)

\* C1: every incident has an assigned unit if and only if its status is
\* waiting_for_driver or en_route; a resolved incident has none and an
\* en_route incident always has one.
C1_AssignedIffActive ==
    \A id \in Ids : (crashes[id].assigned # NULL) <=> (crashes[id].status \in Active)

\* C2: a unit is the assigned unit of at most one incident that is
\* waiting_for_driver or en_route.
C2_OneActiveIncidentPerUnit ==
    \A i, j \in Ids :
        ( /\ i # j
          /\ crashes[i].status \in Active /\ crashes[j].status \in Active
          /\ crashes[i].assigned # NULL )
        => crashes[i].assigned # crashes[j].assigned

\* C3: an incident's status changes along the listed edges only, and a
\* resolved incident never changes status again.
Edges == { <<"new", "waiting_for_driver">>, <<"new", "no_unit_available">>,
           <<"waiting_for_driver", "en_route">>, <<"waiting_for_driver", "new">>,
           <<"en_route", "resolved">> }

C3_ListedEdgesOnly ==
    [][\A id \in Ids :
         crashes'[id].status # crashes[id].status
         => <<crashes[id].status, crashes'[id].status>> \in Edges]_vars

\* C4: accept, decline or arrived called by the assigned unit on an incident
\* whose status does not permit the transition leaves the incident and the
\* availability flags as they were.
C4_InvalidTransitionLeavesState ==
    [][\A d \in Drivers, id \in Ids :
         ( /\ crashes[id].assigned = UnitOf(d)
           /\ \/ AcceptMission(d, id) /\ crashes[id].status # "waiting_for_driver"
              \/ DeclineMission(d, id) /\ crashes[id].status # "waiting_for_driver"
              \/ Arrived(d, id) /\ crashes[id].status # "en_route" )
         => UNCHANGED <<crashes, is_available>>]_vars

\* C5: accept, decline or arrived called by a unit that is not the
\* incident's assigned unit changes neither the incident nor any
\* availability flag.
C5_UnauthorizedLeavesState ==
    [][\A d \in Drivers, id \in Ids :
         ( /\ crashes[id].assigned \notin {NULL, UnitOf(d)}
           /\ (AcceptMission(d, id) \/ DeclineMission(d, id) \/ Arrived(d, id)) )
         => UNCHANGED <<crashes, is_available>>]_vars

\* C6: when simulate_crash's dispatch reads at least one available and staffed
\* unit, its commit leaves the incident waiting_for_driver, assigned to a unit
\* whose distance to the crash is least among the units it read; and the
\* units it reads are exactly the available and staffed ones.
Dist(id, u) == haversine(crashes[id].lat, UnitLat(u))

C6_ReportAssignsNearest ==
    [][\A f \in Frames :
         (f.op = "simulate_crash" /\ Stepped(f)) =>
           /\ f.pc = "dispatch_read" =>
                \E g \in BagToSet(inflight') :
                    /\ g.crash_id = f.crash_id /\ g.pc = "dispatch_write"
                    /\ g.units = AvailableStaffed
           /\ (f.pc = "dispatch_write" /\ f.units # {}) =>
                /\ crashes'[f.crash_id].status = "waiting_for_driver"
                /\ crashes'[f.crash_id].assigned \in f.units
                /\ \A v \in f.units :
                     Dist(f.crash_id, crashes'[f.crash_id].assigned) <= Dist(f.crash_id, v)]_vars

\* a reported crash stands assigned to the nearer of two available, staffed units
C6_Witness ==
    \E f \in Frames :
        /\ f.op = "simulate_crash" /\ f.pc = "dispatch_push"
        /\ crashes[f.crash_id].status = "waiting_for_driver"
        /\ crashes[f.crash_id].assigned = f.nearest
        /\ \E v \in AvailableStaffed :
              /\ f.nearest \in AvailableStaffed
              /\ Dist(f.crash_id, f.nearest) < Dist(f.crash_id, v)

\* C7: when dispatch finds no candidate, the incident ends no_unit_available
\* with no assigned unit, nothing is published, and dispatch returns at once
\* (None), for a fresh report and for the re-dispatch after a decline.
C7_NoCandidateOutcome ==
    [][\A f \in Frames :
         (f.pc = "dispatch_write" /\ f.units = {} /\ Stepped(f)) =>
           /\ crashes'[f.crash_id].status = "no_unit_available"
           /\ crashes'[f.crash_id].assigned = NULL
           /\ UNCHANGED subscribers
           /\ BagCardinality(inflight') = BagCardinality(inflight) - 1]_vars

\* C8: an incident whose status is new or no_unit_available has no assigned
\* unit.
C8_UnassignedWhenNewOrNoUnit ==
    \A id \in Ids :
        crashes[id].status \in {"new", "no_unit_available"} => crashes[id].assigned = NULL

\* C9: the unit a decline's re-dispatch assigns and returns as reassigned_to
\* is never the declining unit, and the declining unit is no candidate.
C9_DeclinerNotReassigned ==
    \A f \in Frames :
        f.op = "decline_mission" =>
            /\ f.exclude \notin f.units
            /\ f.pc = "dispatch_push" => f.nearest # f.exclude

\* a decline is being answered with another unit while the declining unit is
\* still available, staffed and strictly nearer to the crash
C9_Witness ==
    \E f \in Frames :
        /\ f.op = "decline_mission" /\ f.pc = "dispatch_push"
        /\ f.exclude \in AvailableStaffed
        /\ crashes[f.crash_id].assigned = f.nearest
        /\ Dist(f.crash_id, f.exclude) < Dist(f.crash_id, f.nearest)

\* C10: at most one decline is between its clear-assignment commit and its
\* select+assign commit on any one incident.
DeclinesInGap(id) ==
    {f \in Frames : /\ f.op = "decline_mission" /\ f.crash_id = id
                    /\ f.pc \in {"dispatch_read", "dispatch_write"}}

RECURSIVE Copies(_)
Copies(S) == IF S = {} THEN 0
             ELSE LET f == CHOOSE g \in S : TRUE
                  IN CopiesIn(f, inflight) + Copies(S \ {f})

C10_OneDeclineInFlight ==
    \A id \in Ids : Copies(DeclinesInGap(id)) <= 1
\* ---- properties of the handlers --------------------------------------------
\* the step leaves every unit but u and every incident but id as they were
OnlyTouches(u, id) ==
    /\ Len(crashes') = Len(crashes)
    /\ \A v \in Units \ {u} : is_available'[v] = is_available[v]
    /\ \A j \in Ids \ {id} : crashes'[j] = crashes[j]

\* C12: when the assigned unit accepts an incident that is waiting_for_driver
\* the incident becomes en_route and that unit unavailable; when it reports
\* arrival on the en_route incident the incident becomes resolved and the
\* unit available; neither step changes another unit's availability or
\* another incident.
C12_AcceptThenArrive ==
    [][\A d \in Drivers, id \in Ids :
         crashes[id].assigned = UnitOf(d) =>
           /\ (AcceptMission(d, id) /\ crashes[id].status = "waiting_for_driver") =>
                 /\ crashes'[id].status = "en_route"
                 /\ ~is_available'[UnitOf(d)]
                 /\ OnlyTouches(UnitOf(d), id)
           /\ (Arrived(d, id) /\ crashes[id].status = "en_route") =>
                 /\ crashes'[id].status = "resolved"
                 /\ is_available'[UnitOf(d)]
                 /\ OnlyTouches(UnitOf(d), id)]_vars

\* an incident resolved by its unit, which is staffed and available again
C12_Witness ==
    \E id \in Ids, d \in Drivers :
        /\ crashes[id].status = "resolved"
        /\ crashes[id].assigned = UnitOf(d)
        /\ is_on_duty[d] /\ is_available[UnitOf(d)]
        /\ calls >= 4

\* C17: get_mission changes no incident or unit state; it answers standby
\* exactly when no incident assigned to the caller's unit is
\* waiting_for_driver or en_route, and otherwise answers the one of
\* greatest id among them.
MissionAnswerRight ==
    \A d \in Drivers :
        LET mine == {id \in Ids : crashes[id].assigned = UnitOf(d)
                                   /\ crashes[id].status \in Active}
            ans  == get_mission(d)
        IN  /\ (ans.status = "standby") <=> (mine = {})
            /\ mine # {} => /\ ans.crash_id \in mine
                            /\ \A id \in mine : id <= ans.crash_id
                            /\ ans.status = crashes[ans.crash_id].status

C17_MissionReadOnlyLatest ==
    /\ MissionAnswerRight
    /\ \A d \in Drivers :
          ~ENABLED (GetMission(d)
                      /\ ~UNCHANGED <<crashes, is_available, is_on_duty, subscribers>>)

\* a unit with two active incidents is asked for its mission
C17_Witness ==
    \E d \in Drivers :
        /\ Cardinality({id \in Ids : crashes[id].assigned = UnitOf(d)
                                      /\ crashes[id].status \in Active}) >= 2
        /\ get_mission(d).crash_id = Len(crashes)
        /\ calls > Len(crashes) + 1

\* C18: accept, decline or arrived called with an id that is no row of
\* crashes changes no incident, no is_available flag and publishes nothing.
C18_UnknownIncidentNoEffect ==
    [][\A d \in Drivers, id \in CrashIds \ Ids :
         (is_on_duty[d] /\ (AcceptMission(d, id) \/ DeclineMission(d, id) \/ Arrived(d, id)))
           => UNCHANGED <<crashes, is_available, subscribers, published>>]_vars

\* ---- properties of the event fan-out -----------------------------------------
Last(q) == q[Len(q)]

\* C15: push_event(unit_id, ...) enqueues the event on every subscription
\* registered for unit_id, several of one unit included, and on none of
\* another unit; the mission_assigned event of a dispatch reaches only the
\* subscriptions of the unit that dispatch assigned.
C15_PublishReachesUnitOnly ==
    [][\A f \in Frames :
         (f.pc = "dispatch_push" /\ Stepped(f)) =>
           LET msg == <<"mission_assigned", f.crash_id, f.nearest>>
           IN  /\ \A i \in 1 .. Len(subscribers[f.nearest]) :
                    Len(subscribers[f.nearest][i]) < QueueMaxSize =>
                       subscribers'[f.nearest][i] = Append(subscribers[f.nearest][i], msg)
               /\ Len(subscribers'[f.nearest]) = Len(subscribers[f.nearest])
               /\ \A u \in Units \ {f.nearest} : subscribers'[u] = subscribers[u]]_vars

\* two subscriptions of one unit hold its mission_assigned event while
\* another unit's subscription was registered and holds none
C15_Witness ==
    \E u \in Units, v \in Units :
        /\ u # v
        /\ Len(subscribers[u]) >= 2
        /\ \A i \in 1 .. Len(subscribers[u]) :
              /\ subscribers[u][i] # <<>>
              /\ Last(subscribers[u][i])[1] = "mission_assigned"
              /\ Last(subscribers[u][i])[3] = u
        /\ Len(subscribers[v]) >= 1
        /\ \A i \in 1 .. Len(subscribers[v]) :
              \A k \in 1 .. Len(subscribers[v][i]) :
                  subscribers[v][i][k][1] # "mission_assigned"

\* C19: set_availability sets the caller's is_on_duty and their unit's
\* is_available to the requested value in one step and broadcasts
\* availability_update to every subscription of every unit; it changes no
\* incident and no other unit or driver.
C19_ToggleSetsBothAndBroadcasts ==
    [][\A d \in Drivers, b \in BOOLEAN :
         SetAvailability(d, b) =>
           LET msg == <<"availability_update", UnitOf(d), IF b THEN 1 ELSE 0>>
           IN  /\ is_on_duty'[d] = b
               /\ is_available'[UnitOf(d)] = b
               /\ \A e \in Drivers \ {d} : is_on_duty'[e] = is_on_duty[e]
               /\ \A u \in Units \ {UnitOf(d)} : is_available'[u] = is_available[u]
               /\ crashes' = crashes
               /\ \A s \in Registered :
                    /\ s[2] <= Len(subscribers'[s[1]])
                    /\ Len(subscribers[s[1]][s[2]]) < QueueMaxSize =>
                          subscribers'[s[1]][s[2]] = Append(subscribers[s[1]][s[2]], msg)]_vars

\* a driver went off duty and the subscriptions of two units hold the event
C19_Witness ==
    \E d \in Drivers :
        /\ ~is_on_duty[d] /\ ~is_available[UnitOf(d)]
        /\ \E u \in Units, v \in Units : u # v /\ <<u, 1>> \in Registered
                                            /\ <<v, 1>> \in Registered
        /\ \A s \in Registered :
              /\ subscribers[s[1]][s[2]] # <<>>
              /\ Last(subscribers[s[1]][s[2]]) = <<"availability_update", UnitOf(d), 0>>

\* C20: on every stream the first event the client receives is connected,
\* and it comes before every published event, those published between the
\* registration of the queue and the start of generate() included.
C20_ConnectedFirst ==
    \A s \in Registered :
        LET out == streams[s[1]][s[2]].out
        IN  out # <<>> =>
              /\ out[1] = <<"connected", s[1], streams[s[1]][s[2]].driver>>
              /\ \A k \in 2 .. Len(out) : out[k][1] # "connected"

\* a stream whose queue held an event before generate() started has yielded
\* connected and then that event
C20_Witness ==
    \E s \in Registered :
        LET out == streams[s[1]][s[2]].out
        IN  /\ streams[s[1]][s[2]].open
            /\ Len(out) >= 2
            /\ out[1][1] = "connected"
            /\ out[2] = published[s[1]][s[2]].log[1]

\* the published events a stream has yielded: all it yielded but connected
Delivered(out) == IF out = <<>> THEN <<>> ELSE Tail(out)

\* C13: for every subscription whose queue was never full at a publish, the
\* events yielded to its client followed by the events still queued are
\* exactly the events published to its unit or to all since it registered, in
\* publish order: none lost, duplicated or reordered.
C13_DeliveredInPublishOrder ==
    \A s \in Registered :
        ~published[s[1]][s[2]].full =>
            Delivered(streams[s[1]][s[2]].out) \o subscribers[s[1]][s[2]]
              = published[s[1]][s[2]].log

\* a client has received a broadcast and a unit event, one after the other
C13_Witness ==
    \E s \in Registered :
        LET out == streams[s[1]][s[2]].out
        IN  /\ ~published[s[1]][s[2]].full
            /\ Len(out) >= 3
            /\ {out[2][1], out[3][1]} = {"availability_update", "mission_assigned"}
            /\ subscribers[s[1]][s[2]] = <<>>

\* what a put leaves in a queue according to C14
PutOrDrop(q, msg) == IF Len(q) = QueueMaxSize THEN q ELSE Append(q, msg)

\* C14: push_event and push_all always complete: when a queue they walk is
\* full the event is dropped for that queue only and the queue keeps its
\* contents, while every other queue with room, of the same unit or another,
\* still gets the event, and the caller goes on as usual.
C14_FullQueueDropsOnlyItsEvent ==
    [][/\ \A d \in Drivers, b \in BOOLEAN :
            (SetAvailability(d, b)
               /\ \E s \in Registered : Len(subscribers[s[1]][s[2]]) = QueueMaxSize) =>
              /\ \A s \in Registered :
                    subscribers'[s[1]][s[2]] =
                        PutOrDrop(subscribers[s[1]][s[2]],
                                  <<"availability_update", UnitOf(d), IF b THEN 1 ELSE 0>>)
              /\ is_on_duty'[d] = b
       /\ \A f \in Frames :
            (f.pc = "dispatch_push" /\ Stepped(f)
               /\ \E i \in 1 .. Len(subscribers[f.nearest]) :
                     Len(subscribers[f.nearest][i]) = QueueMaxSize) =>
              /\ \A i \in 1 .. Len(subscribers[f.nearest]) :
                    subscribers'[f.nearest][i] =
                        PutOrDrop(subscribers[f.nearest][i],
                                  <<"mission_assigned", f.crash_id, f.nearest>>)
              /\ \A u \in Units \ {f.nearest} : subscribers'[u] = subscribers[u]
              /\ CopiesIn(f, inflight') = CopiesIn(f, inflight) - 1]_vars

\* a full queue missed the last event published to it, kept what it held, and
\* another queue of the same unit got that event
C14_Witness ==
    \E s \in Registered, t \in Registered :
        LET q == subscribers[s[1]][s[2]]
            h == published[s[1]][s[2]]
        IN  /\ s[1] = t[1] /\ s # t
            /\ h.full
            /\ Len(q) = QueueMaxSize
            /\ q = SubSeq(h.log, 1, QueueMaxSize)
            /\ Len(h.log) = QueueMaxSize + 1
            /\ subscribers[t[1]][t[2]] # <<>>
            /\ Last(subscribers[t[1]][t[2]]) = Last(h.log)

\* the i-th queue registered for unit u belongs to a client that has gone
Gone(u, i) == i <= Len(streams[u]) /\ ~streams[u][i].open

\* _subscribers[u] still holds that queue (no step of the server removes or
\* reorders the queues of a list, so a queue keeps its position)
InRegistry(u, i) == i <= Len(subscribers[u])

\* C16: every registered subscription is eventually removed from
\* _subscribers once its client has disconnected.
C16_GoneEventuallyRemoved ==
    \A u \in Units : \A i \in 1 .. MaxSubs + 1 :
        Gone(u, i) ~> ~InRegistry(u, i)

C22_AssignedUnitAvailableAtCommit ==
    [][\A f \in Frames :
         (f.pc = "dispatch_write" /\ f.units # {} /\ Stepped(f)) =>
            crashes'[f.crash_id].assigned \in AvailableStaffed]_vars

\* the history of queue s gained a mission_assigned message on this step
GainedAssignment(s) ==
    /\ published'[s[1]][s[2]].log # published[s[1]][s[2]].log
    /\ Last(published'[s[1]][s[2]].log)[1] = "mission_assigned"

\* C23: mission_assigned for incident I naming unit U is published only
\* after the write that sets I to waiting_for_driver with unit U is
\* committed, exactly once per such commit, and never when dispatch ends in
\* no_unit_available.
C23_AssignmentEventAfterCommit ==
    [][/\ \A g \in BagToSet(inflight') :
            (g.pc = "dispatch_push" /\ CopiesIn(g, inflight') > CopiesIn(g, inflight)) =>
               /\ crashes'[g.crash_id].status = "waiting_for_driver"
               /\ crashes'[g.crash_id].assigned = g.nearest
               /\ published' = published
       /\ \A s \in Registered :
            GainedAssignment(s) =>
               \E f \in Frames :
                  /\ f.pc = "dispatch_push" /\ f.nearest = s[1]
                  /\ inflight' = Return(f)
                  /\ published'[s[1]][s[2]].log =
                        Append(published[s[1]][s[2]].log,
                               <<"mission_assigned", f.crash_id, f.nearest>>)
       /\ \A f \in Frames :
            (f.pc = "dispatch_push" /\ Stepped(f)) =>
               \A i \in 1 .. Len(published[f.nearest]) : GainedAssignment(<<f.nearest, i>>)
       /\ \A f \in Frames :
            (f.pc = "dispatch_write" /\ f.units = {} /\ Stepped(f)) =>
               /\ crashes'[f.crash_id].status = "no_unit_available"
               /\ inflight' = Return(f)
               /\ published' = published]_vars

\* every dispatch has returned; one ended in an assignment whose event the
\* unit's queue was handed exactly once
C23_Witness ==
    /\ inflight = EmptyBag
    /\ \E s \in Registered, id \in Ids :
          LET log == published[s[1]][s[2]].log
          IN  /\ crashes[id].assigned = s[1]
              /\ Cardinality({k \in 1 .. Len(log) :
                                log[k] = <<"mission_assigned", id, s[1]>>}) = 1
              /\ \A k \in 1 .. Len(log) :
                    log[k][1] = "mission_assigned" => log[k][2] = id

\* the history of queue s gained a status_update message on this step
GainedStatus(s) ==
    /\ published'[s[1]][s[2]].log # published[s[1]][s[2]].log
    /\ Last(published'[s[1]][s[2]].log)[1] = "status_update"

\* C24: on each accept and each arrival a status_update carrying the
\* incident id and its new status (en_route, resp. resolved) is put on every
\* subscription of every unit that has room, and only after the status and
\* availability writes are committed.
C24_StatusEventAfterCommit ==
    [][/\ \A g \in BagToSet(inflight') :
            (g.pc = "push_all" /\ CopiesIn(g, inflight') > CopiesIn(g, inflight)) =>
               /\ txn # Idle /\ txn.pc = "commit" /\ txn' = Idle
               /\ g.crash_id \in Ids => crashes'[g.crash_id].status = StatusOf(g.op)
               /\ is_available'[g.nearest] = (g.op = "arrived")
               /\ published' = published
               /\ subscribers' = subscribers
       /\ \A s \in Registered :
            GainedStatus(s) =>
               \E f \in Frames :
                  /\ f.pc = "push_all"
                  /\ inflight' = Return(f)
                  /\ published'[s[1]][s[2]].log =
                        Append(published[s[1]][s[2]].log,
                               <<"status_update", f.crash_id, StatusOf(f.op)>>)
       /\ \A f \in Frames :
            (f.pc = "push_all" /\ Stepped(f)) =>
               \A s \in Registered :
                  Len(subscribers[s[1]][s[2]]) < QueueMaxSize =>
                     subscribers'[s[1]][s[2]] =
                        Append(subscribers[s[1]][s[2]],
                               <<"status_update", f.crash_id, StatusOf(f.op)>>)]_vars

\* Unit-01 accepted its incident and arrived; every unit's stream has got
\* en_route and then resolved for it
C24_Witness ==
    /\ inflight = EmptyBag
    /\ txn = Idle
    /\ crashes[1].status = "resolved"
    /\ is_available[1]
    /\ \A s \in Registered :
          LET got == Delivered(streams[s[1]][s[2]].out) \o subscribers[s[1]][s[2]]
          IN  /\ Len(got) >= 2
              /\ got[Len(got) - 1] = <<"status_update", 1, "en_route">>
              /\ got[Len(got)] = <<"status_update", 1, "resolved">>

\* ---- properties of the lock --------------------------------------------------
\* C21: a publish to one unit never waits for a lock held by a publish to
\* another unit: a dispatch about to publish can enter its walk whenever
\* every publish that is inside its walk addresses another unit.
C21_NoWaitAcrossUnits ==
    \A f \in Frames :
        (/\ f.pc = "dispatch_push"
         /\ \A g \in LockHolders : g.nearest # f.nearest)
          => ENABLED PushAcquire(f)

====
